---------------------------- MODULE Spec2Model ----------------------------
(***************************************************************************)
(* BLK Generator (blk_generation2.py): a Tk application that keeps one     *)
(* preference (save_path) in settings.json and writes a BLK document made  *)
(* of a fixed template plus the user's crosshair code.                     *)
(*                                                                         *)
(* Texts are TLA+ strings, character for character as in the source.       *)
(***************************************************************************)
EXTENDS Integers, Sequences, FiniteSets, TLC

VARIABLES
    pc,             \* "start": before __init__; "idle": in mainloop; "crashed": __init__ raised
    settings,       \* self.settings (a JSON value; unset before _load_settings returns)
    settingsFile,   \* what is at SETTINGS_FILE on disk
    files,          \* the other files on disk: path -> content
    vert_var,       \* the "drawCentralLineVert" check box
    horz_var,       \* the "drawCentralLineHorz" check box
    include_ranges, \* the "Include horizontal range lines" check box
    file_name_entry,\* content of the self.file_name_entry widget
    input_text,     \* content of the self.input_text widget
    path_label,     \* text and colour of self.path_label
    messages,       \* message boxes shown by the last handler, in order
    last            \* the last handler that ran and how it ended

widgets == <<vert_var, horz_var, include_ranges, file_name_entry, input_text>>
vars == <<pc, settings, settingsFile, files, vert_var, horz_var, include_ranges,
          file_name_entry, input_text, path_label, messages, last>>

(***************************************************************************)
(* Program constants                                                       *)
(***************************************************************************)
SETTINGS_FILE == "settings.json"
DEFAULT_EMPTY_FILE_NAME == "A_BLKSAVE"

(***************************************************************************)
(* str methods used by the program                                         *)
(***************************************************************************)
\* The characters str.strip() removes (the ASCII ones).
Whitespace == {" ", "\t", "\n", "\r", "\f"}

CharAt(s, i) == SubSeq(s, i, i)

RECURSIVE FirstNonSpace(_, _)
\* index of the first non-whitespace character of s at or after i; Len(s)+1 if none
FirstNonSpace(s, i) ==
    IF i > Len(s) \/ CharAt(s, i) \notin Whitespace THEN i
    ELSE FirstNonSpace(s, i + 1)

RECURSIVE LastNonSpace(_, _)
\* index of the last non-whitespace character of s at or before i; 0 if none
LastNonSpace(s, i) ==
    IF i < 1 \/ CharAt(s, i) \notin Whitespace THEN i
    ELSE LastNonSpace(s, i - 1)

\* str.lstrip() alone: a strip() that forgets the trailing end
LStripOnly(s) == SubSeq(s, FirstNonSpace(s, 1), Len(s))

\* str.strip()
Strip(s) == SubSeq(s, FirstNonSpace(s, 1), LastNonSpace(s, Len(s)))

\* str.startswith(p), str.endswith(p)
StartsWith(s, p) == Len(s) >= Len(p) /\ SubSeq(s, 1, Len(p)) = p
EndsWith(s, p) == Len(s) >= Len(p) /\ SubSeq(s, Len(s) - Len(p) + 1, Len(s)) = p

RECURSIVE Join(_, _)
\* sep.join(parts)
Join(sep, parts) ==
    IF Len(parts) = 0 THEN ""
    ELSE IF Len(parts) = 1 THEN parts[1]
    ELSE parts[1] \o sep \o Join(sep, Tail(parts))

(***************************************************************************)
(* _load_template                                                          *)
(***************************************************************************)
RANGE_BLOCK ==
    "  range:p2=-32, 32\n" \o
    "  range:p2=-28, 0\n" \o
    "  range:p2=-24, 24\n" \o
    "  range:p2=-20, 0\n" \o
    "  range:p2=-16, 16\n" \o
    "  range:p2=-12, 0\n" \o
    "  range:p2=-8, 8\n" \o
    "  range:p2=-4, 0\n" \o
    "  range:p2=4, 0\n" \o
    "  range:p2=8, 8\n" \o
    "  range:p2=12, 0\n" \o
    "  range:p2=16, 16\n" \o
    "  range:p2=20, 0\n" \o
    "  range:p2=24, 24\n" \o
    "  range:p2=28, 0\n" \o
    "  range:p2=32, 32"

YesNo(b) == IF b THEN "yes" ELSE "no"

\* template_parts as first built (the list literal), for the two central-line flags
template_parts(vert, horz) == <<
    "crosshairHorVertSize:p2=3, 2",
    "rangefinderProgressBarColor1:c=0, 255, 0, 64",
    "rangefinderProgressBarColor2:c=255, 255, 255, 64",
    "rangefinderTextScale:r=0.7",
    "rangefinderUseThousandth:b=no",
    "rangefinderVerticalOffset:r=0.1",
    "rangefinderHorizontalOffset:r=5",
    "detectAllyTextScale:r=0.7",
    "detectAllyOffset:p2=4, 0.05",
    "fontSizeMult:r=1",
    "lineSizeMult:r=1",
    "drawCentralLineVert:b=" \o YesNo(vert),
    "drawCentralLineHorz:b=" \o YesNo(horz),
    "drawSightMask:b=yes",
    "useSmoothEdge:b=yes",
    "crosshairColor:c=0, 0, 0, 0",
    "crosshairLightColor:c=0, 0, 0, 0",
    "crosshairDistHorSizeMain:p2=0.03, 0.02",
    "crosshairDistHorSizeAdditional:p2=0.005, 0.003",
    "distanceCorrectionPos:p2=-0.26, -0.05",
    "drawDistanceCorrection:b=yes",
    "",
    "crosshair_distances{",
    "  distance:p3=200, 0, 0",
    "  distance:p3=400, 4, 0",
    "  distance:p3=600, 0, 0",
    "  distance:p3=800, 8, 0",
    "  distance:p3=1000, 0, 0",
    "  distance:p3=1200, 12, 0",
    "  distance:p3=1400, 0, 0",
    "  distance:p3=1600, 16, 0",
    "  distance:p3=1800, 0, 0",
    "  distance:p3=2000, 20, 0",
    "  distance:p3=2200, 0, 0",
    "  distance:p3=2400, 24, 0",
    "  distance:p3=2600, 0, 0",
    "  distance:p3=2800, 28, 0",
    "  distance:p3=3000, 0, 0",
    "  distance:p3=3200, 32, 0",
    "  distance:p3=3400, 0, 0",
    "  distance:p3=3600, 36, 0",
    "  distance:p3=3800, 0, 0",
    "  distance:p3=4000, 40, 0",
    "  distance:p3=4200, 0, 0",
    "  distance:p3=4400, 44, 0",
    "  distance:p3=4600, 0, 0",
    "  distance:p3=4800, 48, 0",
    "  distance:p3=5000, 0, 0",
    "  distance:p3=5200, 52, 0",
    "  distance:p3=5400, 0, 0",
    "  distance:p3=5600, 56, 0",
    "  distance:p3=5800, 0, 0",
    "  distance:p3=6000, 60, 0",
    "}",
    "",
    "crosshair_hor_ranges{" >>

\* the parts appended after the list literal
template_tail(ranges) ==
    (IF ranges THEN <<RANGE_BLOCK>> ELSE << >>) \o
    << "}",
       "",
       "matchExpClass{",
       "  exp_tank:b = yes",
       "  exp_heavy_tank:b = yes",
       "  exp_tank_destroyer:b = yes",
       "  exp_SPAA:b = yes",
       "}" >>

\* "\n".join(template_parts), computed once for each setting of the check boxes
Templates ==
    LET at(v, h, r) == <<v, h, r>> :> Join("\n", template_parts(v, h) \o template_tail(r))
    IN at(TRUE, TRUE, TRUE) @@ at(TRUE, TRUE, FALSE)
       @@ at(TRUE, FALSE, TRUE) @@ at(TRUE, FALSE, FALSE)
       @@ at(FALSE, TRUE, TRUE) @@ at(FALSE, TRUE, FALSE)
       @@ at(FALSE, FALSE, TRUE) @@ at(FALSE, FALSE, FALSE)

\* a _load_template that reads vert_var for both central-line flags
_load_template_one_flag(vert, horz, ranges) == Templates[<<vert, vert, ranges>>]

\* _load_template(), for the values of vert_var, horz_var and include_ranges
_load_template(vert, horz, ranges) == Templates[<<vert, horz, ranges>>]

(***************************************************************************)
(* _combine_template_with_crosshair                                        *)
(***************************************************************************)
\* a merge that forgets the pre-wrapped form and always wraps
CombineAlwaysWrap(template_content, code) ==
    template_content \o "\n\ndrawLines{\n" \o Strip(code) \o "\n}"

\* the merge of lines 251-258, given the template and the raw crosshair code
Combine(template_content, code) ==
    LET crosshair_code == Strip(code) IN
    IF StartsWith(crosshair_code, "drawLines{") /\ EndsWith(crosshair_code, "}")
    THEN template_content \o "\n" \o crosshair_code
    ELSE template_content \o "\n\ndrawLines{\n" \o crosshair_code \o "\n}"

\* _combine_template_with_crosshair(crosshair_code), for the three flags
_combine_template_with_crosshair(vert, horz, ranges, crosshair_code) ==
    Combine(_load_template(vert, horz, ranges), crosshair_code)

\* the write of line 280 without the newline
FinalizeNoNewline(final_content) == Strip(final_content)

\* the write of line 280 with a strip() that forgets the trailing end
FinalizeLStrip(final_content) == LStripOnly(final_content) \o "\n"

\* what line 280 writes: final_content.strip() + "\n"
Finalize(final_content) == Strip(final_content) \o "\n"

(***************************************************************************)
(* os.path                                                                 *)
(***************************************************************************)
RECURSIVE LastSlash(_, _)
\* index of the last "/" of p at or before i; 0 if none
LastSlash(p, i) ==
    IF i < 1 \/ CharAt(p, i) = "/" THEN i ELSE LastSlash(p, i - 1)

\* os.path.basename(p)
Basename(p) == SubSeq(p, LastSlash(p, Len(p)) + 1, Len(p))

\* os.path.join(a, b) (posixpath): an absolute b discards a
PathJoin(a, b) ==
    IF StartsWith(b, "/") THEN b
    ELSE IF a = "" \/ EndsWith(a, "/") THEN a \o b
    ELSE a \o "/" \o b

(***************************************************************************)
(* JSON values, json.dump(indent=4) and json.load                          *)
(*                                                                         *)
(* A dict is the sequence of its <<key, value>> items in insertion order   *)
(* (keys and values are strings without characters JSON escapes).          *)
(***************************************************************************)
Dict(items) == [type |-> "dict", items |-> items]
JsonList == [type |-> "list", items |-> << >>]     \* the JSON text []
JsonNull == [type |-> "null", items |-> << >>]     \* the JSON text null
Unset == [type |-> "unset", items |-> << >>]       \* self.settings not assigned yet

HasKey(d, k) == \E i \in 1..Len(d.items) : d.items[i][1] = k

\* d[k], for a dict d that has k
Lookup(d, k) == d.items[CHOOSE i \in 1..Len(d.items) : d.items[i][1] = k][2]

\* d.get(k): present is FALSE for None
Get(d, k) ==
    IF HasKey(d, k) THEN [present |-> TRUE, value |-> Lookup(d, k)]
    ELSE [present |-> FALSE, value |-> ""]

\* a truth test that only asks "is not None"
TruthyNotNone(g) == g.present

\* Python's truth value of d.get(k): None and "" are false
Truthy(g) == g.present /\ g.value # ""

\* d[k] = v
SetItem(d, k, v) ==
    IF HasKey(d, k)
    THEN Dict([i \in 1..Len(d.items) |->
                 IF d.items[i][1] = k THEN <<k, v>> ELSE d.items[i]])
    ELSE Dict(Append(d.items, <<k, v>>))

RECURSIVE DumpItems(_)
DumpItems(items) ==
    IF Len(items) = 0 THEN ""
    ELSE "    \"" \o items[1][1] \o "\": \"" \o items[1][2] \o "\""
         \o (IF Len(items) = 1 THEN "\n" ELSE ",\n" \o DumpItems(Tail(items)))

\* the text json.dump(v, f, indent=4) writes
JsonDump(v) ==
    IF v.type = "list" THEN "[]"
    ELSE IF v.type = "null" THEN "null"
    ELSE IF Len(v.items) = 0 THEN "{}"
    ELSE "{\n" \o DumpItems(v.items) \o "}"

\* what the user may pick in the folder dialog ("" is Cancel)
Folders == {"/out", "/alt"}

\* the JSON documents of the model: the values json.load can return
JsonValues ==
    {Dict(<< >>), JsonList, JsonNull}
    \cup {Dict(<< <<"save_path", f>> >>) : f \in Folders \cup {""}}
    \cup {Dict(<< <<"theme", "dark">>, <<"save_path", f>> >>) : f \in Folders}

\* json.loads(text): ok is FALSE for JSONDecodeError
JsonLoads(text) ==
    IF \E v \in JsonValues : JsonDump(v) = text
    THEN [ok |-> TRUE, value |-> CHOOSE v \in JsonValues : JsonDump(v) = text]
    ELSE [ok |-> FALSE, value |-> Unset]

(***************************************************************************)
(* The settings file                                                       *)
(***************************************************************************)
\* exists: os.path.exists; readable: open() succeeds; utf8: the bytes decode
FileAbsent == [exists |-> FALSE, readable |-> FALSE, utf8 |-> FALSE, text |-> ""]
FileWith(text) == [exists |-> TRUE, readable |-> TRUE, utf8 |-> TRUE, text |-> text]
FileUnreadable == [exists |-> TRUE, readable |-> FALSE, utf8 |-> TRUE, text |-> ""]
FileUndecodable == [exists |-> TRUE, readable |-> TRUE, utf8 |-> FALSE, text |-> ""]

ShowError(text) == [kind |-> "showerror", title |-> "Error", text |-> text]
ShowInfo(text) == [kind |-> "showinfo", title |-> "Done", text |-> text]

\* _load_settings(): raised names the exception that leaves the method
_load_settings(f) ==
    IF ~f.exists
    THEN [raised |-> "", value |-> Dict(<< >>), messages |-> << >>]
    ELSE IF ~f.readable
    THEN [raised |-> "", value |-> Dict(<< >>),
          messages |-> << ShowError("Error loading settings from " \o SETTINGS_FILE) >>]
    ELSE IF ~f.utf8
    THEN [raised |-> "UnicodeDecodeError", value |-> Unset, messages |-> << >>]
    ELSE IF ~JsonLoads(f.text).ok
    THEN [raised |-> "", value |-> Dict(<< >>),
          messages |-> << ShowError("Could not read settings from " \o SETTINGS_FILE
                                     \o ". File might be corrupted.") >>]
    ELSE [raised |-> "", value |-> JsonLoads(f.text).value, messages |-> << >>]

\* how the write of a file can end
WriteOutcomes == {"ok", "open_fails", "write_fails"}

\* a _save_settings that shows nothing when the write fails
_save_settings_silent(s, f, outcome) ==
    IF outcome = "ok" THEN [file |-> FileWith(JsonDump(s)), messages |-> << >>]
    ELSE [file |-> f, messages |-> << >>]

\* _save_settings(): the file afterwards and the message boxes shown
_save_settings(s, f, outcome) ==
    IF outcome = "ok" THEN [file |-> FileWith(JsonDump(s)), messages |-> << >>]
    ELSE [file |-> IF outcome = "open_fails" THEN f ELSE FileWith(""),
          messages |-> << ShowError("Could not save settings to " \o SETTINGS_FILE) >>]

\* _update_path_label(), for a dict
_update_path_label(s) ==
    IF Truthy(Get(s, "save_path"))
    THEN [text |-> "Selected: " \o Basename(Get(s, "save_path").value), fg |-> "green"]
    ELSE [text |-> "No folder selected", fg |-> "red"]


(***************************************************************************)
(* Inputs                                                                  *)
(***************************************************************************)
\* the longest crosshair text, in pieces, and the most files the disk holds
MaxPieces == 3
MaxFiles == 2

Pieces == {"drawLines{", "}", "\n", " ", "x"}

RECURSIVE TextsOf(_)
\* every text made of at most n pieces
TextsOf(n) ==
    IF n = 0 THEN {""}
    ELSE TextsOf(n - 1) \cup {t \o p : t \in TextsOf(n - 1), p \in Pieces}

Texts == TextsOf(MaxPieces)

\* what the user types into the text widget while the application runs
TypedTexts == {"myline"}

\* what the user leaves in the file-name entry
Names == {"", " b ", "/b"}

\* what the user types into the file-name entry while the application runs
TypedNames == {"", " b "}

\* what is at SETTINGS_FILE when the application starts
InitialSettingsFiles ==
    {FileAbsent, FileUnreadable, FileUndecodable, FileWith("{\n")}
    \cup {FileWith(JsonDump(v)) :
            v \in {Dict(<< >>), JsonList,
                   Dict(<< <<"save_path", "/out">> >>),
                   Dict(<< <<"theme", "dark">>, <<"save_path", "/out">> >>)}}

\* how reading the chosen .txt file can end ("" is Cancel in the dialog)
TxtChoices ==
    { [path |-> "", result |-> "cancel", content |-> ""],
      [path |-> "/in/a.txt", result |-> "ok", content |-> "drawLines{\nfoo\n}\n"],
      [path |-> "/in/b.txt", result |-> "open_fails", content |-> ""],
      [path |-> "/in/c.txt", result |-> "read_fails", content |-> ""],
      [path |-> "/in/d.txt", result |-> "undecodable", content |-> ""] }

\* the disk when the application starts: one file that is not the application's
DiskAtStart == [p \in {"/out/keep.blk"} |-> "keep\n"]

Ran(op, arg, path, outcome, raised) ==
    [op |-> op, arg |-> arg, path |-> path, outcome |-> outcome, raised |-> raised]

(***************************************************************************)
(* The application                                                         *)
(***************************************************************************)
\* before BLKGeneratorApp(root): the widgets as __init__ will create them
Init ==
    /\ pc = "start"
    /\ settings = Unset
    /\ settingsFile \in InitialSettingsFiles
    /\ files = DiskAtStart
    /\ vert_var = TRUE
    /\ horz_var = TRUE
    /\ include_ranges = TRUE
    /\ file_name_entry = ""
    /\ input_text = ""
    /\ path_label = [text |-> "", fg |-> ""]
    /\ messages = << >>
    /\ last = Ran("none", "", "", "", "")

\* BLKGeneratorApp(root): _load_settings, the widgets, _update_path_label.
\* An exception that leaves __init__ ends the process before mainloop.
__init__ ==
    /\ pc = "start"
    /\ LET r == _load_settings(settingsFile) IN
       /\ messages' = r.messages
       /\ IF r.raised # ""
          THEN /\ pc' = "crashed"
               /\ last' = Ran("__init__", "", "", "", r.raised)
               /\ UNCHANGED <<settings, path_label>>
          ELSE /\ settings' = r.value
               /\ IF r.value.type = "dict"
                  THEN /\ path_label' = _update_path_label(r.value)
                       /\ pc' = "idle"
                       /\ last' = Ran("__init__", "", "", "", "")
                  ELSE \* self.settings.get: a list or None has no get
                       /\ pc' = "crashed"
                       /\ last' = Ran("__init__", "", "", "", "AttributeError")
                       /\ UNCHANGED path_label
    /\ UNCHANGED <<settingsFile, files, widgets>>

\* the "Choose save folder" button; folder is what askdirectory() returns
_browse_folder(folder, outcome) ==
    /\ pc = "idle"
    /\ IF folder # ""
       THEN LET s == SetItem(settings, "save_path", folder)
                w == _save_settings(s, settingsFile, outcome) IN
            /\ settings' = s
            /\ settingsFile' = w.file
            /\ messages' = w.messages
            /\ path_label' = _update_path_label(s)
            /\ last' = Ran("_browse_folder", folder, SETTINGS_FILE, outcome, "")
       ELSE /\ messages' = << >>
            /\ last' = Ran("_browse_folder", folder, "", "cancel", "")
            /\ UNCHANGED <<settings, settingsFile, path_label>>
    /\ UNCHANGED <<pc, files, widgets>>

\* the "Load text from .txt" button; c is the chosen file and how reading it ends
_browse_txt_file(c) ==
    /\ pc = "idle"
    /\ input_text' = CASE c.result = "ok" -> c.content
                       [] c.result \in {"cancel", "open_fails"} -> input_text
                       [] OTHER -> ""      \* deleted before file.read() raised
    /\ messages' = IF c.result \in {"open_fails", "read_fails"}
                   THEN << ShowError("Could not read file " \o c.path) >>
                   ELSE << >>
    /\ last' = Ran("_browse_txt_file", c.path, c.path, c.result,
                   IF c.result = "undecodable" THEN "UnicodeDecodeError" ELSE "")
    /\ UNCHANGED <<pc, settings, settingsFile, files, path_label,
                   vert_var, horz_var, include_ranges, file_name_entry>>

\* the user edits the text widget
TypeText(t) ==
    /\ pc = "idle"
    /\ input_text' = t
    /\ messages' = << >>
    /\ last' = Ran("user", "", "", "", "")
    /\ UNCHANGED <<pc, settings, settingsFile, files, path_label,
                   vert_var, horz_var, include_ranges, file_name_entry>>

\* the user edits the file-name entry
TypeName(n) ==
    /\ pc = "idle"
    /\ file_name_entry' = n
    /\ messages' = << >>
    /\ last' = Ran("user", "", "", "", "")
    /\ UNCHANGED <<pc, settings, settingsFile, files, path_label,
                   vert_var, horz_var, include_ranges, input_text>>

\* fs with content at path
WriteFile(fs, path, content) ==
    [p \in DOMAIN fs \cup {path} |-> IF p = path THEN content ELSE fs[p]]

\* the disk takes the file: it is there already, or there is room for one more
HasRoom(path) == path \in DOMAIN files \/ Cardinality(DOMAIN files) < MaxFiles

\* line 265: the base name of the output file
FileName(entry) ==
    IF Strip(entry) # "" THEN Strip(entry) ELSE DEFAULT_EMPTY_FILE_NAME

\* line 273: the path of the output file
FullPath(save_path, entry) == PathJoin(save_path, FileName(entry) \o ".blk")

\* the "Start" button; outcome is how the write ends
_generate_blk(outcome) ==
    /\ pc = "idle"
    /\ LET save_path == Get(settings, "save_path")
           full_path == FullPath(save_path.value, file_name_entry)
           sight_code == input_text \o "\n"     \* Text.get("1.0", END)
           final_content ==
               _combine_template_with_crosshair(vert_var, horz_var,
                                                include_ranges, sight_code)
       IN
       IF ~Truthy(save_path)
       THEN /\ messages' = << ShowError("You did not specify a file path.") >>
            /\ last' = Ran("_generate_blk", file_name_entry, "", "no_path", "")
            /\ files' = files
       ELSE /\ last' = Ran("_generate_blk", file_name_entry, full_path, outcome, "")
            /\ CASE outcome = "ok" ->
                      /\ HasRoom(full_path)
                      /\ files' = WriteFile(files, full_path, Finalize(final_content))
                      /\ messages' = << ShowInfo("Saved to:\n" \o full_path) >>
                 [] outcome = "open_fails" ->
                      /\ files' = files
                      /\ messages' = << ShowError("Could not save file to " \o full_path) >>
                 [] outcome = "write_fails" ->
                      /\ HasRoom(full_path)
                      /\ files' = WriteFile(files, full_path, "")
                      /\ messages' = << ShowError("Could not save file to " \o full_path) >>
    /\ UNCHANGED <<pc, settings, settingsFile, path_label, widgets>>

Startup == __init__
BrowseFolder == \E folder \in Folders \cup {""}, outcome \in WriteOutcomes :
                    _browse_folder(folder, outcome)
BrowseTxtFile == \E c \in TxtChoices : _browse_txt_file(c)
UserTypes == (\E t \in TypedTexts : TypeText(t)) \/ (\E n \in TypedNames : TypeName(n))
GenerateBlk == \E outcome \in WriteOutcomes : _generate_blk(outcome)

\* A session in which the check boxes stay as constructed.
Next == Startup \/ BrowseFolder \/ BrowseTxtFile \/ UserTypes \/ GenerateBlk

Spec == Init /\ [][Next]_vars

(***************************************************************************)
(* Generation requests alone: the application is idle, the user has left   *)
(* any settings of the check boxes, any name and any crosshair text in the *)
(* widgets, and presses "Start".                                           *)
(***************************************************************************)
InitText ==
    /\ pc = "idle"
    /\ settings \in {Dict(<< >>), Dict(<< <<"save_path", "">> >>),
                     Dict(<< <<"save_path", "/out">> >>)}
    /\ settingsFile = FileWith(JsonDump(settings))
    /\ files = DiskAtStart
    /\ vert_var \in BOOLEAN
    /\ horz_var \in BOOLEAN
    /\ include_ranges \in BOOLEAN
    /\ file_name_entry \in Names
    /\ input_text \in Texts
    /\ path_label = _update_path_label(settings)
    /\ messages = << >>
    /\ last = Ran("none", "", "", "", "")

NextText == GenerateBlk

SpecText == InitText /\ [][NextText]_vars

(***************************************************************************)
(* Reading a document back                                                 *)
(***************************************************************************)
DrawLinesToken == "drawLines{"

\* the positions at or after from where tok occurs in s
OccurrencesFrom(s, tok, from) ==
    {i \in from..(Len(s) - Len(tok) + 1) : SubSeq(s, i, i + Len(tok) - 1) = tok}

\* the number of occurrences of tok in s
CountOcc(s, tok) == Cardinality(OccurrencesFrom(s, tok, 1))

\* occurrences of the token in each template
TemplateTokens ==
    LET at(v, h, r) == <<v, h, r>> :> CountOcc(_load_template(v, h, r), DrawLinesToken)
    IN at(TRUE, TRUE, TRUE) @@ at(TRUE, TRUE, FALSE)
       @@ at(TRUE, FALSE, TRUE) @@ at(TRUE, FALSE, FALSE)
       @@ at(FALSE, TRUE, TRUE) @@ at(FALSE, TRUE, FALSE)
       @@ at(FALSE, FALSE, TRUE) @@ at(FALSE, FALSE, FALSE)

\* the number of occurrences of the token in doc, a text that starts with the
\* template t of options o: those inside t, and those that reach beyond it
CountInDocument(doc, t, o) ==
    IF StartsWith(doc, t)
    THEN TemplateTokens[o]
         + Cardinality(OccurrencesFrom(doc, DrawLinesToken,
                                       Len(t) - Len(DrawLinesToken) + 2))
    ELSE CountOcc(doc, DrawLinesToken)

RECURSIVE ClosingBrace(_, _, _)
\* the index of the "}" that closes a block open at depth d before position i
\* of s; 0 if it is never closed
ClosingBrace(s, i, d) ==
    IF i > Len(s) THEN 0
    ELSE IF CharAt(s, i) = "{" THEN ClosingBrace(s, i + 1, d + 1)
    ELSE IF CharAt(s, i) = "}"
         THEN (IF d = 1 THEN i ELSE ClosingBrace(s, i + 1, d - 1))
    ELSE ClosingBrace(s, i + 1, d)

RECURSIVE Balanced(_, _, _)
\* the braces of s from position i on, entered at depth d, never close more
\* than was opened and end at depth 0
Balanced(s, i, d) ==
    IF i > Len(s) THEN d = 0
    ELSE IF CharAt(s, i) = "{" THEN Balanced(s, i + 1, d + 1)
    ELSE IF CharAt(s, i) = "}" THEN d > 0 /\ Balanced(s, i + 1, d - 1)
    ELSE Balanced(s, i + 1, d)

\* the check boxes, as _load_template reads them
Options == <<vert_var, horz_var, include_ranges>>

\* what the "Start" handler reads from the text widget
SightCode == input_text \o "\n"

\* the template and the document the last generation request composed
Template == _load_template(vert_var, horz_var, include_ranges)
Composed ==
    _combine_template_with_crosshair(vert_var, horz_var, include_ranges, SightCode)

\* the last handler was a generation request that composed a document
Generated == last.op = "_generate_blk" /\ last.outcome # "no_path"
\* ... and wrote it
Written == last.op = "_generate_blk" /\ last.outcome = "ok"

\* the trimmed fragment is a pre-wrapped block
PreWrapped(c) == StartsWith(c, DrawLinesToken) /\ EndsWith(c, "}")

\* the drawLines{ block of doc that opens at or after position from is
\* closed by the last character of doc
ClosedAtEnd(doc, from) ==
    LET opens == OccurrencesFrom(doc, DrawLinesToken, from) IN
    /\ opens # {}
    /\ LET at == CHOOSE i \in opens : \A j \in opens : i <= j
       IN ClosingBrace(doc, at + Len(DrawLinesToken), 1) = Len(doc)

(***************************************************************************)
(* C1                                                                      *)
(***************************************************************************)
\* C1 as stated: whatever the fragment and the options, the composed document
\* holds exactly one "drawLines{", and it ends with the closing "}".
C1_ExactlyOneBlockAlways ==
    Generated =>
        LET doc == Composed IN
        /\ CountInDocument(doc, Template, Options) = 1
        /\ EndsWith(doc, "}")

\* C1 amended: the composed document holds exactly one "drawLines{" exactly
\* when the trimmed fragment holds none (bare directives, empty text) or is
\* pre-wrapped and holds only the one it starts with; and then, if the braces
\* of the directives are balanced, that block is closed by the document's
\* final "}".
C1_OneBlockForPlainFragments ==
    Generated =>
        LET doc == Composed
            t == Template
            c == Strip(SightCode)
            n == CountOcc(c, DrawLinesToken)
            count == CountInDocument(doc, t, Options)
            plain == n = 0 \/ (PreWrapped(c) /\ n = 1)
            body == IF PreWrapped(c) THEN SubSeq(c, Len(DrawLinesToken) + 1, Len(c) - 1)
                    ELSE c
        IN /\ count = n + (IF PreWrapped(c) THEN 0 ELSE 1)
           /\ plain <=> count = 1
           /\ plain /\ Balanced(body, 1, 0) => ClosedAtEnd(doc, Len(t))

\* C1 witness: a pre-wrapped block was composed and written, and the document
\* holds that one block, closed at its end
C1_Witness ==
    /\ Written
    /\ input_text = "drawLines{x}"
    /\ CountInDocument(Composed, Template, Options) = 1
    /\ ClosedAtEnd(Composed, Len(Template))

(***************************************************************************)
(* C2                                                                      *)
(***************************************************************************)
\* C2 as stated: a pre-wrapped fragment is appended verbatim after the
\* template with one blank line between them, as in the wrapping branch.
C2_PreWrappedAfterBlankLine ==
    Generated =>
        LET c == Strip(SightCode) IN
        PreWrapped(c) => Composed = Template \o "\n\n" \o c

(***************************************************************************)
(* C7                                                                      *)
(***************************************************************************)
\* d has no leading whitespace and ends with exactly one newline
TrimmedWithOneNewline(d) ==
    /\ Len(d) >= 2
    /\ CharAt(d, 1) \notin Whitespace
    /\ CharAt(d, Len(d)) = "\n"
    /\ CharAt(d, Len(d) - 1) \notin Whitespace

\* the files the application has created or overwritten
OutputPaths == {p \in DOMAIN files : p \notin DOMAIN DiskAtStart \/ files[p] # DiskAtStart[p]}

\* C7: every document a generation request has written starts with a
\* non-whitespace character and ends with exactly one newline, and the one just
\* written is the composed text, trimmed, followed by that newline. (A write
\* that failed midway leaves an empty file, not a document.)
C7_WrittenDocumentTrimmedOneNewline ==
    /\ \A p \in OutputPaths : files[p] = "" \/ TrimmedWithOneNewline(files[p])
    /\ Written =>
        LET d == files[last.path] IN
        /\ TrimmedWithOneNewline(d)
        /\ SubSeq(d, 1, Len(d) - 1) = Strip(Composed)

\* C7 witness: a fragment with blank lines around it was written
C7_Witness ==
    /\ Written
    /\ input_text = "\nx\n"
    /\ ~include_ranges
    /\ EndsWith(files[last.path], "drawLines{\nx\n}\n")

(***************************************************************************)
(* C10                                                                     *)
(***************************************************************************)
\* C10: finalize is idempotent, on the text in the widget (any text, the empty
\* and the whitespace-only ones included) and on the document the last
\* generation request composed.
C10_FinalizeIdempotent ==
    /\ Finalize(Finalize(input_text)) = Finalize(input_text)
    /\ Generated =>
        LET once == Finalize(Composed) IN Finalize(once) = once

\* C10 witness: the widget holds only whitespace and a document was written
C10_Witness ==
    /\ Written
    /\ input_text = "\n\n"
    /\ Finalize(input_text) = "\n"
    /\ files[last.path] = Finalize(files[last.path])

(***************************************************************************)
(* C8                                                                      *)
(***************************************************************************)
\* s.split("\n")
SplitLines(s) ==
    LET nl == {i \in 1..Len(s) : CharAt(s, i) = "\n"}
        n == Cardinality(nl)
        \* the position of the k-th newline
        pos(k) == CHOOSE i \in nl : Cardinality({j \in nl : j < i}) = k - 1
    IN [k \in 1..(n + 1) |->
          SubSeq(s, IF k = 1 THEN 1 ELSE pos(k - 1) + 1,
                    IF k = n + 1 THEN Len(s) ELSE pos(k) - 1)]

\* the lines of each template
TemplateLines ==
    LET at(v, h, r) == <<v, h, r>> :> SplitLines(_load_template(v, h, r))
    IN at(TRUE, TRUE, TRUE) @@ at(TRUE, TRUE, FALSE)
       @@ at(TRUE, FALSE, TRUE) @@ at(TRUE, FALSE, FALSE)
       @@ at(FALSE, TRUE, TRUE) @@ at(FALSE, TRUE, FALSE)
       @@ at(FALSE, FALSE, TRUE) @@ at(FALSE, FALSE, FALSE)

\* the k-th entry of the distance table: 200, 400, ... with the label every
\* second entry carries
DistanceLine(k) ==
    "  distance:p3=" \o ToString(200 * k) \o ", "
        \o ToString(IF k % 2 = 0 THEN 2 * k ELSE 0) \o ", 0"

\* the k-th range line: -32, -28, ..., -4, 4, ..., 32 with the length every
\* second line carries
RangeLine(k) ==
    LET v == IF k <= 8 THEN 4 * k - 36 ELSE 4 * k - 32
        a == IF v < 0 THEN 0 - v ELSE v
    IN "  range:p2=" \o ToString(v) \o ", " \o ToString(IF a % 8 = 0 THEN a ELSE 0)

\* the index of the only line of lines equal to l; 0 if there is none or several
IndexOf(lines, l) ==
    LET at == {i \in 1..Len(lines) : lines[i] = l} IN
    IF Cardinality(at) = 1 THEN CHOOSE i \in at : TRUE ELSE 0

\* lines without the n lines after position k
Without(lines, k, n) == SubSeq(lines, 1, k) \o SubSeq(lines, k + n + 1, Len(lines))

\* C8: the template built for the check boxes is the all-true template with
\* the yes/no of drawCentralLineVert and drawCentralLineHorz set to their own
\* check box and, when includeHorizontalRanges is off, the 16 range lines taken
\* out of crosshair_hor_ranges{ } (the wrapper stays, empty); the all-true
\* template holds one crosshair_distances block of the 30 distance entries and
\* the 16 range lines in their fixed order; a written document starts with
\* that template.
C8_TemplateDiffersOnlyByOptions ==
    Generated =>
        LET all == TemplateLines[<<TRUE, TRUE, TRUE>>]
            lines == TemplateLines[Options]
            iv == IndexOf(all, "drawCentralLineVert:b=yes")
            ih == IndexOf(all, "drawCentralLineHorz:b=yes")
            id == IndexOf(all, "crosshair_distances{")
            ir == IndexOf(all, "crosshair_hor_ranges{")
            flagged == [i \in 1..Len(all) |->
                          IF i = iv THEN "drawCentralLineVert:b=" \o YesNo(vert_var)
                          ELSE IF i = ih THEN "drawCentralLineHorz:b=" \o YesNo(horz_var)
                          ELSE all[i]]
        IN /\ iv > 0 /\ ih > 0 /\ id > 0 /\ ir > 0
           /\ \A k \in 1..30 : all[id + k] = DistanceLine(k)
           /\ all[id + 31] = "}"
           /\ \A k \in 1..16 : all[ir + k] = RangeLine(k)
           /\ all[ir + 17] = "}"
           /\ lines = IF include_ranges THEN flagged ELSE Without(flagged, ir, 16)
           /\ lines[ir + (IF include_ranges THEN 17 ELSE 1)] = "}"
           /\ Written => StartsWith(files[last.path], Template \o "\n")

\* C8 witness: a document was written with two of the check boxes off
C8_Witness ==
    /\ Written
    /\ ~vert_var /\ horz_var /\ ~include_ranges
    /\ Len(TemplateLines[Options]) = Len(TemplateLines[<<TRUE, TRUE, TRUE>>]) - 16
    /\ IndexOf(TemplateLines[Options], "drawCentralLineVert:b=no") > 0

(***************************************************************************)
(* C5                                                                      *)
(***************************************************************************)
\* no output directory is configured: save_path is absent or empty
NoDirectory == ~HasKey(settings, "save_path") \/ Lookup(settings, "save_path") = ""

\* C5: a generation request made while no output directory is configured
\* shows one error and changes nothing else: no file on disk, not the
\* settings, not the settings file, whatever the name, the check boxes and
\* the text.
C5_NoDirectoryAborts ==
    [][ (NoDirectory /\ last'.op = "_generate_blk")
          => /\ last'.outcome = "no_path"
             /\ messages' = << ShowError("You did not specify a file path.") >>
             /\ files' = files
             /\ settings' = settings
             /\ settingsFile' = settingsFile
             /\ pc' = pc ]_vars

\* C5 witness: the request was made with save_path empty, a name in the entry
\* and a pre-wrapped fragment in the widget, and was refused
C5_Witness ==
    /\ last.op = "_generate_blk" /\ last.outcome = "no_path"
    /\ HasKey(settings, "save_path") /\ NoDirectory
    /\ file_name_entry = " b "
    /\ input_text = "drawLines{}"
    /\ files = DiskAtStart
    /\ Len(messages) = 1 /\ messages[1].kind = "showerror"

(***************************************************************************)
(* C9                                                                      *)
(***************************************************************************)
\* the base name C9 describes: the entry trimmed, or the default when blank
BaseName == IF Strip(file_name_entry) = "" THEN "A_BLKSAVE" ELSE Strip(file_name_entry)

\* C9 as stated: a request that wrote its document wrote it to
\* <directory>/<base_name>.blk, overwriting what was there, reported success
\* with that path, and changed no other file nor the settings file.
C9_WritesDirectorySlashName ==
    Written =>
        LET target == Lookup(settings, "save_path") \o "/" \o BaseName \o ".blk" IN
        /\ last.path = target
        /\ target \in DOMAIN files /\ files[target] = Finalize(Composed)
        /\ messages = << ShowInfo("Saved to:\n" \o target) >>
        /\ \A p \in DOMAIN files \ {target} :
              p \in DOMAIN DiskAtStart /\ files[p] = DiskAtStart[p]
        /\ DOMAIN DiskAtStart \subseteq DOMAIN files
        /\ settingsFile = FileWith(JsonDump(settings))

(***************************************************************************)
(* C3                                                                      *)
(***************************************************************************)
\* the settings file is there but cannot be read or parsed
Unusable(f) == f.exists /\ (~f.readable \/ ~f.utf8 \/ ~JsonLoads(f.text).ok)

\* C3 as stated: once the application has started, loading the settings has
\* raised nothing and self.settings is a mapping; with no settings file it is
\* the empty mapping and nothing was shown; with a file that cannot be read or
\* parsed it is the empty mapping and one error was shown; the application is
\* idle.
C3_LoadNeverRaisesYieldsMapping ==
    last.op = "__init__" =>
        /\ last.raised = ""
        /\ pc = "idle"
        /\ settings.type = "dict"
        /\ ~settingsFile.exists => settings = Dict(<< >>) /\ messages = << >>
        /\ Unusable(settingsFile) =>
              /\ settings = Dict(<< >>)
              /\ Len(messages) = 1 /\ messages[1].kind = "showerror"

(***************************************************************************)
(* C4                                                                      *)
(***************************************************************************)
\* the last handler met one of the four error kinds
ErrorMet ==
    \/ last.op = "__init__" /\ Unusable(settingsFile)
    \/ last.op = "_browse_folder" /\ last.outcome \in {"open_fails", "write_fails"}
    \/ last.op = "_generate_blk" /\ last.outcome \in {"no_path", "open_fails", "write_fails"}

\* C4 as stated: after every handler the process is alive and idle, every
\* handler being enabled again, and an error of the four kinds was shown in
\* exactly one message box.
C4_EveryErrorReportedThenIdle ==
    pc # "start" =>
        /\ pc = "idle"
        /\ ErrorMet => Len(messages) = 1 /\ messages[1].kind = "showerror"
        /\ ENABLED BrowseFolder /\ ENABLED BrowseTxtFile /\ ENABLED GenerateBlk

(***************************************************************************)
(* C6                                                                      *)
(***************************************************************************)
\* the settings file holds exactly the in-memory mapping
Persisted ==
    /\ settingsFile.exists /\ settingsFile.readable /\ settingsFile.utf8
    /\ JsonLoads(settingsFile.text) = [ok |-> TRUE, value |-> settings]

\* the last handler chose a folder
FolderChosen == last.op = "_browse_folder" /\ last.arg # ""

\* C6, after a folder selection: the in-memory settings hold the chosen
\* save_path; a save that succeeded shows nothing and leaves the mapping in the
\* settings file; a save that failed shows one error and the mapping still
\* holds the chosen path.
C6_AfterSelection ==
    FolderChosen =>
        /\ settings.type = "dict"
        /\ Get(settings, "save_path") = [present |-> TRUE, value |-> last.arg]
        /\ path_label.text = "Selected: " \o Basename(last.arg)
        /\ last.outcome = "ok" => Persisted /\ messages = << >>
        /\ last.outcome # "ok" =>
              /\ Len(messages) = 1 /\ messages[1].kind = "showerror"
              /\ messages[1].text = "Could not save settings to settings.json"

\* C6, the step of a folder selection: the other keys of the mapping keep
\* their values, in their order.
C6_SelectionStep ==
    (last'.op = "_browse_folder" /\ last'.arg # "" /\ settings.type = "dict") =>
        /\ [i \in 1..Len(settings'.items) |-> settings'.items[i][1]]
             = [i \in 1..Len(settings'.items) |->
                  IF i <= Len(settings.items) THEN settings.items[i][1] ELSE "save_path"]
        /\ \A i \in 1..Len(settings.items) :
              settings.items[i][1] # "save_path" => settings'.items[i] = settings.items[i]
        /\ Len(settings'.items) =
              Len(settings.items) + (IF HasKey(settings, "save_path") THEN 0 ELSE 1)

\* C6, between selections: once the settings file holds the in-memory mapping
\* it keeps holding it until a save fails.
C6_StaysPersisted ==
    (Persisted /\ ~(last'.op = "_browse_folder" /\ last'.outcome \in {"open_fails", "write_fails"}))
        => Persisted'

\* C6: after every folder selection the settings hold the chosen path and a
\* save was attempted at once, leaving the file equal to the mapping or, on
\* failure, an error shown and the mapping kept; so whenever the last save
\* succeeded, the persisted record equals the in-memory settings.
C6_SettingsPersistedOnSelection ==
    /\ []C6_AfterSelection
    /\ [][C6_SelectionStep /\ C6_StaysPersisted]_vars

\* C6 witness: a second folder was chosen over a loaded one, the save failed
\* midway, and the mapping holds the new path beside its other key
C6_Witness ==
    /\ FolderChosen /\ last.arg = "/alt" /\ last.outcome = "write_fails"
    /\ settings = Dict(<< <<"theme", "dark">>, <<"save_path", "/alt">> >>)
    /\ settingsFile = FileWith("")
    /\ Len(messages) = 1

=============================================================================
